---- MODULE Spec2Model ----
(***************************************************************************)
(* Model of engine/engine_train.py: the Trainer class (construction,       *)
(* train_one_epoch, valid_one_epoch, write_log and run).                   *)
(*                                                                         *)
(* Floating-point numbers are modelled as exact rationals [n, d] in lowest *)
(* terms; the IEEE value NaN (what numpy.mean returns for an empty list,   *)
(* 0/0) is the record with d = 0.  Every comparison with NaN is false, as  *)
(* in Python.  The framework collaborators (model, optimizer, scheduler,   *)
(* EMA, checkpoint writer, tensorboard writer) are modelled by the calls   *)
(* the trainer makes on them.                                              *)
(***************************************************************************)
EXTENDS Integers, Sequences, FiniteSets, TLC

\* ---------------------------------------------------------------- bounds
MaxStartEpoch == 1
MaxEpoch == 2
MaxLogFreq == 2
MaxTrainBatches == 2
MaxValidBatches == 2

\* ---------------------------------------------------- float arithmetic
RECURSIVE GCD(_, _)
GCD(a, b) == IF b = 0 THEN a ELSE GCD(b, a % b)

Rat(n, d) == [n |-> n \div GCD(n, d), d |-> d \div GCD(n, d)]

NaN == [n |-> 0, d |-> 0]

Zero == [n |-> 0, d |-> 1]

IsNaN(x) == x.d = 0

\* Python's  a > b  on floats
Gt(a, b) == ~IsNaN(a) /\ ~IsNaN(b) /\ a.n * b.d > b.n * a.d

Add(a, b) == Rat(a.n * b.d + b.n * a.d, a.d * b.d)

\* the sum of a list; the sum of the tail is bound to t so that it is
\* computed once
RECURSIVE SumSeq(_)
SumSeq(s) == IF s = <<>> THEN Zero ELSE CHOOSE r \in {Add(s[1], t) : t \in {SumSeq(Tail(s))}} : TRUE

\* the last element instead of the mean
Mean_Last(s) == IF Len(s) = 0 THEN NaN ELSE s[Len(s)]

\* numpy.mean of a python list of floats: sum / len, 0/0 = nan when empty
Mean(s) == IF Len(s) = 0 THEN NaN ELSE CHOOSE r \in {Rat(t.n, t.d * Len(s)) : t \in {SumSeq(s)}} : TRUE

None == "None"

\* placeholders of the same shape as the values that replace them: no batch
\* taken, no metrics returned, no checkpoint written
NoBatch == [size |-> 0, correct |-> 0, loss |-> 0]

NoMetrics == [Accuracy |-> NaN, Loss |-> NaN, model |-> None]

NoCheckpoint == [epoch |-> -1, is_best |-> FALSE, is_ema_best |-> FALSE, best_model_metric |-> NaN, best_model_ema_metric |-> NaN]

\* One batch as the loader yields it and the model scores it: the number of
\* samples, how many the arg-max prediction gets right, and the loss value.
BatchOutcomes == {[size |-> 5, correct |-> 3, loss |-> 2], [size |-> 10, correct |-> 8, loss |-> 1]}

\* (logits.argmax(dim=-1) == targets).float().mean().item()
BatchAccuracy(b) == Rat(b.correct, b.size)

\* loss.detach().item()
BatchLoss(b) == Rat(b.loss, 1)

\* best metrics a resumed checkpoint can carry
ResumedMetrics == {Rat(7, 10)}

\* **kwargs of __init__: a dict that holds any of the two resumed metrics
KwargsValues == UNION {[keys -> ResumedMetrics] : keys \in SUBSET {"best_model_metric", "best_model_ema_metric"}}

\* lines 70-77: 0 if the key is not in kwargs, else kwargs[key]
InitialBest(kw, key) == IF key \notin DOMAIN kw THEN Zero ELSE kw[key]

VARIABLES
  pc,                    \* position in run() and in the epoch functions
  start_epoch, max_epoch, log_freq,
  train_loader, valid_loader,      \* number of batches each loader yields
  kwargs,                \* the resumed best metrics given at construction
  epoch,
  best_model_metric, best_model_ema_metric,
  log_iter,
  batch_idx, batch, loss_history, acc_history,
  isEMA, model_used,     \* valid_one_epoch's argument and the model it picks
  train_metrics, valid_metrics, valid_ema_metrics,
  is_best, is_ema_best,
  checkpoint,            \* arguments of the last save_checkpoint call
  sched_arg,             \* argument of the last scheduler.step call
  iter_log_steps,        \* steps of the Train/*_iter scalars written
  epoch_log_steps,       \* steps of the epoch scalars written by write_log
  opt_steps, ema_updates, sched_steps, ckpt_writes,   \* call counters
  op_log,                \* optimizer.step / model_ema.update calls of the current training pass
  epoch_steps,           \* steps of run() completed in the current epoch
  epochs_run             \* epoch indices the loop body was entered with

vars == <<pc, start_epoch, max_epoch, log_freq, train_loader, valid_loader, kwargs, epoch, best_model_metric, best_model_ema_metric, log_iter, batch_idx, batch, loss_history, acc_history, isEMA, model_used, train_metrics, valid_metrics, valid_ema_metrics, is_best, is_ema_best, checkpoint, sched_arg, iter_log_steps, epoch_log_steps, opt_steps, ema_updates, sched_steps, ckpt_writes, op_log, epoch_steps, epochs_run>>

config == <<start_epoch, max_epoch, log_freq, train_loader, valid_loader, kwargs>>

bests == <<best_model_metric, best_model_ema_metric>>

flags == <<is_best, is_ema_best>>

metrics == <<train_metrics, valid_metrics, valid_ema_metrics>>

histories == <<batch_idx, batch, loss_history, acc_history>>

counters == <<opt_steps, ema_updates, sched_steps, ckpt_writes>>

\* ------------------------------------------------------------ __init__
Init ==
  /\ pc = "run"
  /\ start_epoch \in 0..MaxStartEpoch
  /\ max_epoch \in 0..MaxEpoch
  /\ log_freq \in 1..MaxLogFreq
  /\ train_loader \in 0..MaxTrainBatches
  /\ valid_loader \in 0..MaxValidBatches
  /\ kwargs \in KwargsValues
  /\ best_model_metric = InitialBest(kwargs, "best_model_metric")
  /\ best_model_ema_metric = InitialBest(kwargs, "best_model_ema_metric")
  /\ log_iter = 0
  /\ epoch = start_epoch
  /\ batch_idx = 0
  /\ batch = NoBatch
  /\ loss_history = <<>>
  /\ acc_history = <<>>
  /\ isEMA = FALSE
  /\ model_used = None
  /\ train_metrics = NoMetrics
  /\ valid_metrics = NoMetrics
  /\ valid_ema_metrics = NoMetrics
  /\ is_best = FALSE
  /\ is_ema_best = FALSE
  /\ checkpoint = NoCheckpoint
  /\ sched_arg = 0
  /\ iter_log_steps = {}
  /\ epoch_log_steps = {}
  /\ opt_steps = 0
  /\ ema_updates = 0
  /\ sched_steps = 0
  /\ ckpt_writes = 0
  /\ op_log = <<>>
  /\ epoch_steps = <<>>
  /\ epochs_run = <<>>

\* ----------------------------------------------------- train_one_epoch
Metrics(acc, loss, m) == [Accuracy |-> Mean(acc), Loss |-> Mean(loss), model |-> m]

\* lines 85-89: model.train(), empty histories, the loader's iterator
TrainBegin ==
  /\ pc = "train"
  /\ pc' = "train_loop"
  /\ batch_idx' = 0
  /\ batch' = NoBatch
  /\ loss_history' = <<>>
  /\ acc_history' = <<>>
  /\ op_log' = <<>>
  /\ model_used' = "model"
  /\ UNCHANGED <<config, epoch, bests, log_iter, isEMA, metrics, flags, checkpoint, sched_arg, iter_log_steps, epoch_log_steps, counters, epoch_steps, epochs_run>>

\* lines 90-111: next batch, mix, forward pass, loss
TrainForward ==
  /\ pc = "train_loop"
  /\ batch_idx < train_loader
  /\ \E b \in BatchOutcomes : batch' = b
  /\ pc' = "train_step"
  /\ UNCHANGED <<config, epoch, bests, log_iter, batch_idx, loss_history, acc_history, isEMA, model_used, metrics, flags, checkpoint, sched_arg, iter_log_steps, epoch_log_steps, counters, op_log, epoch_steps, epochs_run>>

\* lines 112-114: zero_grad, backward, optimizer.step
TrainOptimizerStep ==
  /\ pc = "train_step"
  /\ opt_steps' = opt_steps + 1
  /\ op_log' = Append(op_log, "step")
  /\ pc' = "train_ema"
  /\ UNCHANGED <<config, epoch, bests, log_iter, histories, isEMA, model_used, metrics, flags, checkpoint, sched_arg, iter_log_steps, epoch_log_steps, ema_updates, sched_steps, ckpt_writes, epoch_steps, epochs_run>>

\* the EMA update left out after the first batch of a pass
TrainEmaUpdate_FirstOnly ==
  /\ pc = "train_ema"
  /\ ema_updates' = (IF batch_idx = 0 THEN ema_updates + 1 ELSE ema_updates)
  /\ op_log' = (IF batch_idx = 0 THEN Append(op_log, "ema") ELSE op_log)
  /\ pc' = "train_record"
  /\ UNCHANGED <<config, epoch, bests, log_iter, histories, isEMA, model_used, metrics, flags, checkpoint, sched_arg, iter_log_steps, epoch_log_steps, opt_steps, sched_steps, ckpt_writes, epoch_steps, epochs_run>>

\* line 118: model_ema.update()
TrainEmaUpdate ==
  /\ pc = "train_ema"
  /\ ema_updates' = ema_updates + 1
  /\ op_log' = Append(op_log, "ema")
  /\ pc' = "train_record"
  /\ UNCHANGED <<config, epoch, bests, log_iter, histories, isEMA, model_used, metrics, flags, checkpoint, sched_arg, iter_log_steps, epoch_log_steps, opt_steps, sched_steps, ckpt_writes, epoch_steps, epochs_run>>

\* the counter tested after its increment
ShouldLog_AfterIncrement(iter, freq) == (iter + 1) % freq = 0

\* line 127: the iteration logs when the counter is a multiple of log_freq
ShouldLog(iter, freq) == iter % freq = 0

\* lines 121-146: record the batch, log every log_freq-th iteration, count it
TrainRecord ==
  /\ pc = "train_record"
  /\ loss_history' = Append(loss_history, BatchLoss(batch))
  /\ acc_history' = Append(acc_history, BatchAccuracy(batch))
  /\ iter_log_steps' = (IF ShouldLog(log_iter, log_freq) THEN iter_log_steps \cup {log_iter} ELSE iter_log_steps)
  /\ log_iter' = log_iter + 1
  /\ batch_idx' = batch_idx + 1
  /\ batch' = NoBatch
  /\ pc' = "train_loop"
  /\ UNCHANGED <<config, epoch, bests, isEMA, model_used, metrics, flags, checkpoint, sched_arg, epoch_log_steps, counters, op_log, epoch_steps, epochs_run>>

\* lines 148-153 and 237: the epoch means, returned to run()
TrainReturn ==
  /\ pc = "train_loop"
  /\ batch_idx >= train_loader
  /\ train_metrics' = Metrics(acc_history, loss_history, model_used)
  /\ loss_history' = <<>>
  /\ acc_history' = <<>>
  /\ batch_idx' = 0
  /\ epoch_steps' = Append(epoch_steps, "train")
  /\ pc' = "valid"
  /\ UNCHANGED <<config, epoch, bests, log_iter, batch, isEMA, model_used, valid_metrics, valid_ema_metrics, flags, checkpoint, sched_arg, iter_log_steps, epoch_log_steps, counters, op_log, epochs_run>>

\* ----------------------------------------------------- valid_one_epoch
\* line 158: model = self.model if isEMA else self.model_ema
SelectModel(ema) == IF ema THEN "model" ELSE "model_ema"

\* lines 238-239 and 155-163: the call, the model choice, model.eval()
ValidBegin ==
  /\ pc \in {"valid", "valid_ema"}
  /\ isEMA' = (pc = "valid_ema")
  /\ model_used' = SelectModel(isEMA')
  /\ batch_idx' = 0
  /\ loss_history' = <<>>
  /\ acc_history' = <<>>
  /\ pc' = "valid_loop"
  /\ UNCHANGED <<config, epoch, bests, log_iter, batch, metrics, flags, checkpoint, sched_arg, iter_log_steps, epoch_log_steps, counters, op_log, epoch_steps, epochs_run>>

\* lines 165-179: one validation batch
ValidBatch ==
  /\ pc = "valid_loop"
  /\ batch_idx < valid_loader
  /\ \E b \in BatchOutcomes :
       /\ loss_history' = Append(loss_history, BatchLoss(b))
       /\ acc_history' = Append(acc_history, BatchAccuracy(b))
  /\ batch_idx' = batch_idx + 1
  /\ UNCHANGED <<pc, config, epoch, bests, log_iter, batch, isEMA, model_used, metrics, flags, checkpoint, sched_arg, iter_log_steps, epoch_log_steps, counters, op_log, epoch_steps, epochs_run>>

\* lines 183-188: the epoch means, returned to the call site in run()
ValidReturn ==
  /\ pc = "valid_loop"
  /\ batch_idx >= valid_loader
  /\ IF isEMA
       THEN /\ valid_ema_metrics' = Metrics(acc_history, loss_history, model_used)
            /\ pc' = "gc"
            /\ UNCHANGED valid_metrics
       ELSE /\ valid_metrics' = Metrics(acc_history, loss_history, model_used)
            /\ pc' = "valid_ema"
            /\ UNCHANGED valid_ema_metrics
  /\ loss_history' = <<>>
  /\ acc_history' = <<>>
  /\ batch_idx' = 0
  /\ epoch_steps' = Append(epoch_steps, "valid")
  /\ UNCHANGED <<config, epoch, bests, log_iter, batch, isEMA, model_used, train_metrics, flags, checkpoint, sched_arg, iter_log_steps, epoch_log_steps, counters, op_log, epochs_run>>

\* ----------------------------------------------------------------- run
\* lines 218-219 and 227: the zero-gradient optimizer step, then range(start_epoch, max_epoch)
RunStart ==
  /\ pc = "run"
  /\ opt_steps' = opt_steps + 1
  /\ pc' = "loop"
  /\ UNCHANGED <<config, epoch, bests, log_iter, histories, isEMA, model_used, metrics, flags, checkpoint, sched_arg, iter_log_steps, epoch_log_steps, ema_updates, sched_steps, ckpt_writes, op_log, epoch_steps, epochs_run>>

\* a range that includes max_epoch
SchedulerStep_Inclusive ==
  /\ pc = "loop"
  /\ epoch <= max_epoch
  /\ epochs_run' = Append(epochs_run, epoch)
  /\ sched_arg' = epoch + 1
  /\ sched_steps' = sched_steps + 1
  /\ epoch_steps' = <<"sched">>
  /\ pc' = "train"
  /\ UNCHANGED <<config, epoch, bests, log_iter, histories, isEMA, model_used, metrics, flags, checkpoint, iter_log_steps, epoch_log_steps, opt_steps, ema_updates, ckpt_writes, op_log>>

\* lines 227-230: the loop takes the next epoch index and steps the scheduler
SchedulerStep ==
  /\ pc = "loop"
  /\ epoch < max_epoch
  /\ epochs_run' = Append(epochs_run, epoch)
  /\ sched_arg' = epoch + 1
  /\ sched_steps' = sched_steps + 1
  /\ epoch_steps' = <<"sched">>
  /\ pc' = "train"
  /\ UNCHANGED <<config, epoch, bests, log_iter, histories, isEMA, model_used, metrics, flags, checkpoint, iter_log_steps, epoch_log_steps, opt_steps, ema_updates, ckpt_writes, op_log>>

\* line 240: gc.collect()
GcCollect ==
  /\ pc = "gc"
  /\ pc' = "compare"
  /\ UNCHANGED <<config, epoch, bests, log_iter, histories, isEMA, model_used, metrics, flags, checkpoint, sched_arg, iter_log_steps, epoch_log_steps, counters, op_log, epoch_steps, epochs_run>>

\* >= in place of >
IsNewBest_OrEqual(acc, best) == Gt(acc, best) \/ acc = best

\* lines 244 and 249: the test that makes a validation accuracy the new best
IsNewBest(acc, best) == Gt(acc, best)

\* the stored bests overwritten with the current accuracies every epoch
CompareBest_Overwrite ==
  /\ pc = "compare"
  /\ is_best' = IsNewBest(valid_metrics.Accuracy, best_model_metric)
  /\ best_model_metric' = (IF IsNaN(valid_metrics.Accuracy) THEN best_model_metric ELSE valid_metrics.Accuracy)
  /\ is_ema_best' = IsNewBest(valid_ema_metrics.Accuracy, best_model_ema_metric)
  /\ best_model_ema_metric' = (IF IsNaN(valid_ema_metrics.Accuracy) THEN best_model_ema_metric ELSE valid_ema_metrics.Accuracy)
  /\ epoch_steps' = Append(epoch_steps, "compare")
  /\ pc' = "save"
  /\ UNCHANGED <<config, epoch, log_iter, histories, isEMA, model_used, metrics, checkpoint, sched_arg, iter_log_steps, epoch_log_steps, counters, op_log, epochs_run>>

\* lines 243-251: both best-metric comparisons and updates
CompareBest ==
  /\ pc = "compare"
  /\ is_best' = IsNewBest(valid_metrics.Accuracy, best_model_metric)
  /\ best_model_metric' = (IF is_best' THEN valid_metrics.Accuracy ELSE best_model_metric)
  /\ is_ema_best' = IsNewBest(valid_ema_metrics.Accuracy, best_model_ema_metric)
  /\ best_model_ema_metric' = (IF is_ema_best' THEN valid_ema_metrics.Accuracy ELSE best_model_ema_metric)
  /\ epoch_steps' = Append(epoch_steps, "compare")
  /\ pc' = "save"
  /\ UNCHANGED <<config, epoch, log_iter, histories, isEMA, model_used, metrics, checkpoint, sched_arg, iter_log_steps, epoch_log_steps, counters, op_log, epochs_run>>

\* the checkpoint written with the bests of the previous checkpoint
SaveCheckpoint_StaleBest ==
  /\ pc = "save"
  /\ checkpoint' = [epoch |-> epoch, is_best |-> is_best, is_ema_best |-> is_ema_best, best_model_metric |-> (IF ckpt_writes = 0 THEN InitialBest(kwargs, "best_model_metric") ELSE checkpoint.best_model_metric), best_model_ema_metric |-> best_model_ema_metric]
  /\ ckpt_writes' = ckpt_writes + 1
  /\ epoch_steps' = Append(epoch_steps, "save")
  /\ pc' = "log"
  /\ UNCHANGED <<config, epoch, bests, log_iter, histories, isEMA, model_used, metrics, flags, sched_arg, iter_log_steps, epoch_log_steps, opt_steps, ema_updates, sched_steps, op_log, epochs_run>>

\* the checkpoint written only for a new best
SaveCheckpoint_OnlyWhenBest ==
  /\ pc = "save"
  /\ checkpoint' = (IF is_best THEN [epoch |-> epoch, is_best |-> is_best, is_ema_best |-> is_ema_best, best_model_metric |-> best_model_metric, best_model_ema_metric |-> best_model_ema_metric] ELSE checkpoint)
  /\ ckpt_writes' = (IF is_best THEN ckpt_writes + 1 ELSE ckpt_writes)
  /\ epoch_steps' = (IF is_best THEN Append(epoch_steps, "save") ELSE epoch_steps)
  /\ pc' = "log"
  /\ UNCHANGED <<config, epoch, bests, log_iter, histories, isEMA, model_used, metrics, flags, sched_arg, iter_log_steps, epoch_log_steps, opt_steps, ema_updates, sched_steps, op_log, epochs_run>>

\* lines 257-268: save_checkpoint(epoch, model, is_best, model_ema, is_ema_best, ...)
SaveCheckpoint ==
  /\ pc = "save"
  /\ checkpoint' = [epoch |-> epoch, is_best |-> is_best, is_ema_best |-> is_ema_best, best_model_metric |-> best_model_metric, best_model_ema_metric |-> best_model_ema_metric]
  /\ ckpt_writes' = ckpt_writes + 1
  /\ epoch_steps' = Append(epoch_steps, "save")
  /\ pc' = "log"
  /\ UNCHANGED <<config, epoch, bests, log_iter, histories, isEMA, model_used, metrics, flags, sched_arg, iter_log_steps, epoch_log_steps, opt_steps, ema_updates, sched_steps, op_log, epochs_run>>

\* lines 271-274 and 190-212: write_log, the end of the loop body; the
\* body's locals are not read again
WriteLog ==
  /\ pc = "log"
  /\ epoch_log_steps' = epoch_log_steps \cup {epoch}
  /\ epoch_steps' = Append(epoch_steps, "log")
  /\ train_metrics' = NoMetrics
  /\ valid_metrics' = NoMetrics
  /\ valid_ema_metrics' = NoMetrics
  /\ is_best' = FALSE
  /\ is_ema_best' = FALSE
  /\ epoch' = epoch + 1
  /\ pc' = "loop"
  /\ UNCHANGED <<config, bests, log_iter, histories, isEMA, model_used, checkpoint, sched_arg, iter_log_steps, counters, op_log, epochs_run>>

\* line 227: the range is exhausted and run() returns
RunReturn ==
  /\ pc = "loop"
  /\ epoch >= max_epoch
  /\ pc' = "done"
  /\ UNCHANGED <<config, epoch, bests, log_iter, histories, isEMA, model_used, metrics, flags, checkpoint, sched_arg, iter_log_steps, epoch_log_steps, counters, op_log, epoch_steps, epochs_run>>

Next ==
  \/ RunStart
  \/ SchedulerStep
  \/ TrainBegin
  \/ TrainForward
  \/ TrainOptimizerStep
  \/ TrainEmaUpdate
  \/ TrainRecord
  \/ TrainReturn
  \/ ValidBegin
  \/ ValidBatch
  \/ ValidReturn
  \/ GcCollect
  \/ CompareBest
  \/ SaveCheckpoint
  \/ WriteLog
  \/ RunReturn

Spec == Init /\ [][Next]_vars

\* ---------------------------------------------------------- properties
\* a >= b on two numbers (neither NaN)
Geq(a, b) == a.n * b.d >= b.n * a.d

\* a number of the closed interval [0, 1]
InUnitInterval(x) == x.d > 0 /\ 0 <= x.n /\ x.n <= x.d

\* m is a greatest element of S under the float order: in S, exceeded by none
IsMaximum(m, S) == m \in S /\ \A x \in S : ~Gt(x, m)

\* the loop body of run() is being executed
InEpoch == pc \notin {"run", "loop", "done"}

\* both validation results of the current epoch are held
HasValidMetrics == pc \in {"gc", "compare", "save", "log"}

\* C1: the is-best flag computed in an epoch, and passed to save_checkpoint,
\* is true exactly when the epoch's validation accuracy is strictly greater
\* than the best stored before the comparison (equal gives false); the same
\* for the EMA flag against the stored EMA best; the stored bests start at
\* the resumed values, or at 0 when none is given.
C1_IsBestIffStrictlyGreater ==
  /\ [](pc = "run" => /\ best_model_metric = (IF "best_model_metric" \in DOMAIN kwargs THEN kwargs["best_model_metric"] ELSE Zero)
                      /\ best_model_ema_metric = (IF "best_model_ema_metric" \in DOMAIN kwargs THEN kwargs["best_model_ema_metric"] ELSE Zero))
  /\ [][/\ pc = "compare" =>
             /\ is_best' <=> (valid_metrics.Accuracy.d # 0 /\ valid_metrics.Accuracy.n * best_model_metric.d > best_model_metric.n * valid_metrics.Accuracy.d)
             /\ is_ema_best' <=> (valid_ema_metrics.Accuracy.d # 0 /\ valid_ema_metrics.Accuracy.n * best_model_ema_metric.d > best_model_ema_metric.n * valid_ema_metrics.Accuracy.d)
        /\ pc = "save" => (pc' = "log" /\ checkpoint'.is_best = is_best /\ checkpoint'.is_ema_best = is_ema_best)]_vars

\* a checkpoint written with the live flag true and the EMA flag false because
\* the EMA accuracy only equalled the stored EMA best
C1_Witness ==
  /\ pc = "log"
  /\ checkpoint.is_best /\ ~checkpoint.is_ema_best
  /\ valid_ema_metrics.Accuracy = best_model_ema_metric

\* C2: in every step of a run neither best_model_metric nor
\* best_model_ema_metric decreases.
C2_BestsNeverDecrease ==
  [][Geq(best_model_metric', best_model_metric) /\ Geq(best_model_ema_metric', best_model_ema_metric)]_vars

\* an epoch whose accuracy is below the stored best, after an epoch that raised it
C2_Witness ==
  /\ pc = "save"
  /\ Len(epochs_run) >= 2
  /\ Gt(best_model_metric, valid_metrics.Accuracy)
  /\ Gt(best_model_metric, InitialBest(kwargs, "best_model_metric"))

\* C3: the first validation pass of an epoch evaluates the live model and the
\* second the EMA model; valid_one_epoch evaluates the EMA model exactly when
\* isEMA is true.
C3_ValidationModels ==
  /\ pc = "valid_loop" => (model_used = "model_ema" <=> isEMA)
  /\ HasValidMetrics => (valid_metrics.model = "model" /\ valid_ema_metrics.model = "model_ema")

\* C4: in a training pass the calls alternate optimizer.step, model_ema.update,
\* one pair per batch; after the pass over N batches there are N of each; no
\* EMA update happens outside a training batch.
C4_EmaUpdateOncePerBatch ==
  /\ \A i \in 1..Len(op_log) : op_log[i] = (IF i % 2 = 1 THEN "step" ELSE "ema")
  /\ pc \in {"train_loop", "train_step"} => Len(op_log) = 2 * batch_idx
  /\ pc = "train_ema" => Len(op_log) = 2 * batch_idx + 1
  /\ pc = "train_record" => Len(op_log) = 2 * batch_idx + 2
  /\ (InEpoch /\ pc \notin {"train", "train_loop", "train_step", "train_ema", "train_record"}) => Len(op_log) = 2 * train_loader
  /\ ema_updates = log_iter + (IF pc = "train_record" THEN 1 ELSE 0)
  /\ pc # "run" => opt_steps = 1 + log_iter + (IF pc \in {"train_ema", "train_record"} THEN 1 ELSE 0)

\* a training pass over two batches has returned
C4_Witness == pc = "valid" /\ train_loader = 2 /\ op_log = <<"step", "ema", "step", "ema">>

\* the position in run() as a triple that orders the steps still to come:
\* the epochs not yet finished, the rank of the step within the epoch, and
\* the work left in the batch loop being executed
InTrainLoop == pc \in {"train_loop", "train_step", "train_ema", "train_record"}

EpochsLeft == IF max_epoch > epoch THEN max_epoch - epoch ELSE 0

StepRank ==
  CASE pc = "run" -> 13
    [] pc = "loop" -> 12
    [] pc = "train" -> 11
    [] InTrainLoop -> 10
    [] pc = "valid" -> 9
    [] pc = "valid_loop" /\ ~isEMA -> 8
    [] pc = "valid_ema" -> 7
    [] pc = "valid_loop" /\ isEMA -> 6
    [] pc = "gc" -> 5
    [] pc = "compare" -> 4
    [] pc = "save" -> 3
    [] pc = "log" -> 2
    [] pc = "done" -> 0

LoopLeft ==
  CASE pc = "train_loop" -> 4 * (train_loader - batch_idx) + 3
    [] pc = "train_step" -> 4 * (train_loader - batch_idx) + 2
    [] pc = "train_ema" -> 4 * (train_loader - batch_idx) + 1
    [] pc = "train_record" -> 4 * (train_loader - batch_idx)
    [] pc = "valid_loop" -> valid_loader - batch_idx
    [] OTHER -> 0

Variant == <<EpochsLeft, StepRank, LoopLeft>>

LexLess(a, b) == a[1] < b[1] \/ (a[1] = b[1] /\ (a[2] < b[2] \/ (a[2] = b[2] /\ a[3] < b[3])))

\* C5: run() terminates, having run the loop body once for each index from
\* start_epoch up to max_epoch - 1 in increasing order; with
\* max_epoch <= start_epoch nothing but the one initial optimizer step happens.
\* Termination is stated as: until run() has returned a step is always
\* possible, and every step lowers a triple of natural numbers in the
\* lexicographic order, so no run goes on forever.
C5_RunTerminates ==
  /\ [](pc # "done" => ENABLED Next)
  /\ [](EpochsLeft >= 0 /\ StepRank >= 0 /\ LoopLeft >= 0)
  /\ [][LexLess(Variant', Variant)]_vars
  /\ [](pc = "done" => /\ Len(epochs_run) = (IF max_epoch > start_epoch THEN max_epoch - start_epoch ELSE 0)
                       /\ \A i \in 1..Len(epochs_run) : epochs_run[i] = start_epoch + i - 1)
  /\ [](max_epoch <= start_epoch => /\ opt_steps <= 1
                                    /\ pc = "done" => opt_steps = 1
                                    /\ ema_updates = 0 /\ sched_steps = 0 /\ ckpt_writes = 0
                                    /\ log_iter = 0 /\ iter_log_steps = {} /\ epoch_log_steps = {}
                                    /\ ~InEpoch)

\* run() has returned after more than one epoch
C5_Witness == pc = "done" /\ Len(epochs_run) >= 2

\* the product of the denominators of a list of numbers
RECURSIVE DenProd(_)
DenProd(s) == IF s = <<>> THEN 1 ELSE s[1].d * DenProd(Tail(s))

\* the sum of a list of numbers, as a numerator over DenProd
RECURSIVE NumSum(_)
NumSum(s) == IF s = <<>> THEN 0 ELSE s[1].n * DenProd(Tail(s)) + s[1].d * NumSum(Tail(s))

\* C6: the metrics valid_one_epoch returns are the unweighted means of the
\* per-batch accuracies and losses of all the batches the loader yields, each
\* counted once; accuracies 0.6 and 0.8 give 0.7.
C6_ValidationMeans ==
  [][(pc = "valid_loop" /\ pc' # "valid_loop") =>
       LET m == IF isEMA THEN valid_ema_metrics' ELSE valid_metrics'
           n == Len(acc_history)
       IN /\ n = valid_loader /\ Len(loss_history) = valid_loader
          /\ n > 0 => /\ m.Accuracy.n * n * DenProd(acc_history) = m.Accuracy.d * NumSum(acc_history)
                      /\ m.Loss.n * n * DenProd(loss_history) = m.Loss.d * NumSum(loss_history)
          /\ n > 0 => m.Accuracy.d > 0
          /\ acc_history = <<[n |-> 3, d |-> 5], [n |-> 4, d |-> 5]>> => m.Accuracy = [n |-> 7, d |-> 10]]_vars

\* the first validation pass over two batches has returned 0.7, the mean of
\* 0.6 (3 of 5) and 0.8 (8 of 10)
C6_Witness ==
  /\ pc = "valid_ema"
  /\ valid_loader = 2
  /\ valid_metrics.Accuracy = [n |-> 7, d |-> 10]
  /\ valid_metrics.Loss = [n |-> 3, d |-> 2]

\* C7: the Accuracy of the metrics of every phase is a number in [0, 1],
\* also for a loader that yields no batch.
C7_AccuracyInUnitInterval ==
  /\ pc \in {"valid", "valid_loop", "valid_ema", "gc", "compare", "save", "log"} => InUnitInterval(train_metrics.Accuracy)
  /\ pc \in {"valid_ema", "gc", "compare", "save", "log"} \/ (pc = "valid_loop" /\ isEMA) => InUnitInterval(valid_metrics.Accuracy)
  /\ HasValidMetrics => InUnitInterval(valid_ema_metrics.Accuracy)

\* the order of the steps of one epoch
EpochOrder == <<"sched", "train", "valid", "valid", "compare", "save", "log">>

\* C8: the steps of an epoch happen in the order scheduler, training, first
\* validation, second validation, comparison, checkpoint, epoch log, each once;
\* one checkpoint is written per epoch, with that epoch's index.
C8_EpochStepOrder ==
  /\ Len(epoch_steps) <= Len(EpochOrder)
  /\ \A i \in 1..Len(epoch_steps) : epoch_steps[i] = EpochOrder[i]
  /\ pc \in {"train", "train_loop", "train_step", "train_ema", "train_record"} => Len(epoch_steps) = 1
  /\ pc = "valid" \/ (pc = "valid_loop" /\ ~isEMA) => Len(epoch_steps) = 2
  /\ pc = "valid_ema" \/ (pc = "valid_loop" /\ isEMA) => Len(epoch_steps) = 3
  /\ pc \in {"gc", "compare"} => Len(epoch_steps) = 4
  /\ pc = "save" => Len(epoch_steps) = 5
  /\ pc = "log" => Len(epoch_steps) = 6
  /\ (pc \in {"loop", "done"} /\ epochs_run # <<>>) => epoch_steps = EpochOrder
  /\ ckpt_writes = Len(epochs_run) - (IF InEpoch /\ pc # "log" THEN 1 ELSE 0)
  /\ sched_steps = Len(epochs_run)
  /\ ckpt_writes > 0 => checkpoint.epoch = start_epoch + ckpt_writes - 1
  /\ InEpoch => (epochs_run[Len(epochs_run)] = epoch /\ sched_arg = epoch + 1)
  /\ epoch_log_steps = {start_epoch + i - 1 : i \in 1..(Len(epochs_run) - (IF InEpoch THEN 1 ELSE 0))}

\* the second epoch's checkpoint has been written
C8_Witness == pc = "log" /\ ckpt_writes = 2 /\ checkpoint.epoch = epoch /\ epoch = start_epoch + 1

\* C9: log_iter starts at 0 and is incremented by one per training batch and
\* by nothing else; a batch writes the iteration scalars exactly when log_iter
\* is a multiple of log_freq, with log_iter as their step.
C9_IterationLogging ==
  /\ [](pc = "run" => log_iter = 0)
  /\ [](iter_log_steps = {i \in 0..(log_iter - 1) : \E k \in 0..log_iter : i = k * log_freq})
  /\ [](InEpoch => log_iter = (Len(epochs_run) - 1) * train_loader + (IF pc \in {"train", "train_loop", "train_step", "train_ema", "train_record"} THEN batch_idx ELSE train_loader))
  /\ [][IF pc = "train_record" THEN log_iter' = log_iter + 1 ELSE log_iter' = log_iter]_vars

\* the scalars of step 2 are written by the first batch of the second epoch
C9_Witness ==
  /\ log_freq = 2 /\ train_loader = 2
  /\ Len(epochs_run) = 2
  /\ pc = "train_loop" /\ batch_idx = 1
  /\ iter_log_steps = {0, 2}

\* C10: the best passed to save_checkpoint is the maximum of the starting
\* best and the validation accuracies of all epochs run so far, the current
\* one included, and likewise the EMA best; it is not below the current
\* accuracy and equals it when the is-best flag is true.  Stated from one
\* checkpoint write to the next: the best passed is the maximum of the best
\* passed by the previous write (the starting best at the first write) and the
\* current accuracy.
C10_CheckpointBestIsMaximum ==
  [][pc = "save" =>
       LET first == ckpt_writes = 0
           prev == IF first THEN (IF "best_model_metric" \in DOMAIN kwargs THEN kwargs["best_model_metric"] ELSE Zero) ELSE checkpoint.best_model_metric
           prev_ema == IF first THEN (IF "best_model_ema_metric" \in DOMAIN kwargs THEN kwargs["best_model_ema_metric"] ELSE Zero) ELSE checkpoint.best_model_ema_metric
       IN /\ ckpt_writes' = ckpt_writes + 1
          /\ IsMaximum(checkpoint'.best_model_metric, {prev, valid_metrics.Accuracy})
          /\ IsMaximum(checkpoint'.best_model_ema_metric, {prev_ema, valid_ema_metrics.Accuracy})
          /\ ~Gt(valid_metrics.Accuracy, checkpoint'.best_model_metric)
          /\ ~Gt(valid_ema_metrics.Accuracy, checkpoint'.best_model_ema_metric)
          /\ checkpoint'.is_best => checkpoint'.best_model_metric = valid_metrics.Accuracy
          /\ checkpoint'.is_ema_best => checkpoint'.best_model_ema_metric = valid_ema_metrics.Accuracy]_vars

\* a second checkpoint whose best is the first epoch's accuracy, above both the
\* resumed value and the current accuracy
C10_Witness ==
  /\ pc = "log" /\ ckpt_writes = 2
  /\ "best_model_metric" \in DOMAIN kwargs
  /\ Gt(checkpoint.best_model_metric, kwargs["best_model_metric"])
  /\ Gt(checkpoint.best_model_metric, valid_metrics.Accuracy)
  /\ ~checkpoint.is_best

====
